---- MODULE Spec2Model ----
(***************************************************************************)
(* Model of the visualization helpers of mvp-web-app/public/viz-helpers:   *)
(*   graph_viz_helper.py        print_graph_viz, dump_viz                 *)
(*   linked_list_viz_helper.py  print_linked_list_viz                     *)
(* One behaviour is one call of one of the three functions.  Python        *)
(* strings are sequences of character codes, so that str() is a real       *)
(* conversion and sorted(key=str) a real lexicographic sort.               *)
(***************************************************************************)
EXTENDS Naturals, Sequences, FiniteSets

(***************************************************************************)
(* Bounds of the checked inputs.                                           *)
(***************************************************************************)
MaxObjs == 25
MaxKeys == 2
MaxNbrs == 1
MaxShortLen == 4
LongSlack == 2

(***************************************************************************)
(* Program constants.                                                      *)
(***************************************************************************)
MAX_NODES == 20
max_steps == 100

(***************************************************************************)
(* Python values: a tag t and a content v.                                 *)
(***************************************************************************)
None == [t |-> "none", v |-> 0]
PyInt(n) == [t |-> "int", v |-> n]
PyStr(s) == [t |-> "str", v |-> s]
PyList(s) == [t |-> "list", v |-> s]
PySet(s) == [t |-> "set", v |-> s]
PyDict(items) == [t |-> "dict", v |-> items]
PyObj(o) == [t |-> "obj", v |-> o]

RECURSIVE Digits(_)
Digits(n) == IF n < 10 THEN <<48 + n>> ELSE Digits(n \div 10) \o <<48 + (n % 10)>>

\* str(x) for the identifiers the model draws: ints and strings
Str(x) == IF x.t = "int" THEN Digits(x.v) ELSE x.v

\* a < b for Python strings (code point order)
RECURSIVE StrLess(_, _)
StrLess(a, b) ==
    IF b = <<>> THEN FALSE
    ELSE IF a = <<>> THEN TRUE
    ELSE IF Head(a) # Head(b) THEN Head(a) < Head(b)
    ELSE StrLess(Tail(a), Tail(b))

\* [str(x) for x in sorted(list(S), key=str)]; elements with equal keys give equal strings
RECURSIVE SortedStrs(_)
SortedStrs(S) ==
    IF S = {} THEN <<>>
    ELSE LET m == CHOOSE x \in S : \A y \in S : ~StrLess(Str(y), Str(x))
         IN  <<Str(m)>> \o SortedStrs(S \ {m})

Hashable(x) == x.t \notin {"list", "set", "dict"}
Iterable(x) == x.t \in {"list", "str"}
\* the items a for loop or set.update draws from an iterable
Iter(x) == IF x.t = "list" THEN x.v ELSE [i \in 1..Len(x.v) |-> PyStr(<<x.v[i]>>)]
\* json.dumps accepts None, dicts, lists and tuples of strings; not sets or objects
JsonSerializable(x) ==
    /\ x.t \in {"none", "list", "dict", "str", "int"}
    /\ x.t = "list" => \A i \in 1..Len(x.v) : x.v[i].t \in {"none", "list", "dict", "str", "int"}

Range(s) == {s[i] : i \in 1..Len(s)}

(***************************************************************************)
(* The object heap of the caller: objects 1..n of one of several shapes.   *)
(* 0 is the null reference.                                                *)
(***************************************************************************)
Attrs(h) ==
    (CASE h.kind = "chain" -> {"next"}
       [] h.kind = "tree" -> {"left", "right"}
       [] h.kind = "graph" -> {"neighbors"}
       [] h.kind = "mixed" -> {"next", "neighbors", "left", "right"}
       [] h.kind = "setgraph" -> {"neighbors"}
       [] h.kind = "nary" -> {"children"}
       [] OTHER -> {})

hasattr(h, o, a) ==
    IF a = "val"
    THEN (CASE h.vals = "none" -> FALSE
            [] h.vals = "partial" -> o % 2 = 1
            [] OTHER -> TRUE)
    ELSE a \in Attrs(h)

ValOf(h, o) == IF h.vals = "equal" THEN PyInt(7) ELSE PyInt(o)

NextOf(h, o) == IF o < h.n THEN o + 1 ELSE IF h.kind = "chain" THEN h.back ELSE 0
LeftOf(h, o) == IF 2 * o <= h.n THEN 2 * o ELSE 0
RightOf(h, o) == IF 2 * o + 1 <= h.n THEN 2 * o + 1 ELSE 0
\* isinstance(curr.neighbors, list)
NeighborsIsList(h) == h.kind \in {"graph", "mixed"}
NeighborsOf(h, o) ==
    IF h.kind = "graph" THEN <<(o % h.n) + 1, ((o + 1) % h.n) + 1>> ELSE <<o>>

\* id(obj): one distinct address per live object
id(o) == 4096 + 64 * o

(***************************************************************************)
(* print_graph_viz.  A dict is the sequence of its (key, value) items in   *)
(* insertion order.  The result is the exception that leaves the function  *)
(* ("none" when it returns) and the payloads printed.                      *)
(***************************************************************************)
Keys(items) == {items[i][1] : i \in 1..Len(items)}

\* a variant that forgets unique_nodes.update(neighbors)
UniqueNodesKeysOnly(items) == Keys(items)

\* unique_nodes = set(keys); unique_nodes.update(neighbors) for every value
UniqueNodes(items) ==
    Keys(items) \cup UNION {Range(Iter(items[i][2])) : i \in 1..Len(items)}

\* the set construction raises TypeError on a value that is not iterable or an item that is not hashable
UniqueNodesRaises(items) ==
    \E i \in 1..Len(items) :
        \/ ~Iterable(items[i][2])
        \/ \E x \in Range(Iter(items[i][2])) : ~Hashable(x)

RECURSIVE EdgesFrom(_, _, _)
EdgesFrom(u, neighbors, unique_nodes) ==
    IF neighbors = <<>> THEN <<>>
    ELSE (IF Head(neighbors) \in unique_nodes
          THEN <<[from |-> Str(u), to |-> Str(Head(neighbors))]>>
          ELSE <<>>) \o EdgesFrom(u, Tail(neighbors), unique_nodes)

RECURSIVE EdgesOf(_, _)
EdgesOf(items, unique_nodes) ==
    IF items = <<>> THEN <<>>
    ELSE (IF Head(items)[1] \notin unique_nodes
          THEN <<>>
          ELSE EdgesFrom(Head(items)[1], Iter(Head(items)[2]), unique_nodes))
         \o EdgesOf(Tail(items), unique_nodes)

\* [str(x) for x in (lst or []) if x in unique_nodes]
RECURSIVE StrsIn(_, _)
StrsIn(lst, unique_nodes) ==
    IF lst = <<>> THEN <<>>
    ELSE (IF Head(lst) \in unique_nodes THEN <<Str(Head(lst))>> ELSE <<>>)
         \o StrsIn(Tail(lst), unique_nodes)

OrEmpty(x) == IF x.t = "none" THEN <<>> ELSE x.v
\* `x in unique_nodes` hashes x
MarkerRaises(x) == \E y \in Range(OrEmpty(x)) : ~Hashable(y)

NodeEntries(strs) == [i \in 1..Len(strs) |-> [id |-> strs[i], label |-> strs[i]]]

print_graph_viz(adjacency_list, visited_order, revisited_nodes, cycle_edges, truncated) ==
    LET items == adjacency_list.v
        unique_nodes == UniqueNodes(items)
        payload ==
            [diagramType |-> "graph",
             structure |-> [nodes |-> NodeEntries(SortedStrs(unique_nodes)),
                            edges |-> EdgesOf(items, unique_nodes)],
             markers |-> [visitedOrder |-> StrsIn(OrEmpty(visited_order), unique_nodes),
                          revisitedNodes |-> StrsIn(OrEmpty(revisited_nodes), unique_nodes),
                          cycleEdges |-> IF OrEmpty(cycle_edges) = <<>> THEN PyList(<<>>)
                                         ELSE cycle_edges],
             truncated |-> truncated]
    IN  IF UniqueNodesRaises(items) \/ MarkerRaises(visited_order)
           \/ MarkerRaises(revisited_nodes)
        THEN [exc |-> "TypeError", out |-> <<>>]
        ELSE IF ~JsonSerializable(payload.markers.cycleEdges)
        THEN [exc |-> "TypeError", out |-> <<>>]
        ELSE [exc |-> "none", out |-> <<payload>>]

(***************************************************************************)
(* State of one call.                                                      *)
(*   fn, pc           the function called and the position in it          *)
(*   heap, scope      the caller's objects and locals_dict (entries in     *)
(*                    insertion order)                                     *)
(*   args             the optional arguments of print_graph_viz and        *)
(*                    print_linked_list_viz                                *)
(*   adjacency_list, is_truncated, queue, seen_objs, curr_adj              *)
(*                    locals of dump_viz                                   *)
(*   nodes, pointers, curr, prev, seen, steps                              *)
(*                    locals of print_linked_list_viz                      *)
(*   stdout, raised   the JSON payloads printed (the delimiter lines       *)
(*                    around them are left out); the exception that        *)
(*                    reached the caller, "none" when the call returned    *)
(*   branch           the discovery step of dump_viz that matched          *)
(*   dequeued, iters  history: objects popped from queue, loop iterations  *)
(***************************************************************************)
VARIABLES fn, pc, heap, scope, args,
          adjacency_list, is_truncated, queue, seen_objs, curr_adj,
          nodes, pointers, curr, prev, seen, steps,
          stdout, raised, branch, dequeued, iters

vars == <<fn, pc, heap, scope, args,
          adjacency_list, is_truncated, queue, seen_objs, curr_adj,
          nodes, pointers, curr, prev, seen, steps,
          stdout, raised, branch, dequeued, iters>>

dumpLocals == <<adjacency_list, is_truncated, queue, seen_objs, curr_adj, branch, dequeued>>
listLocals == <<nodes, pointers, curr, prev, seen, steps>>

(***************************************************************************)
(* The inputs drawn.                                                       *)
(***************************************************************************)
Entry(name, val) == [name |-> name, val |-> val]

IdPool == {PyInt(1), PyStr(<<49>>), PyInt(2)}
NbrLists == UNION {[1..k -> IdPool] : k \in 0..MaxNbrs}
KeySeqs ==
    {ks \in UNION {[1..k -> IdPool] : k \in 1..MaxKeys} :
        \A i, j \in 1..Len(ks) : i # j => ks[i] # ks[j]}
AdjMaps ==
    UNION {{PyDict([i \in 1..Len(ks) |-> <<ks[i], PyList(nl[i])>>]) :
                nl \in [1..Len(ks) -> NbrLists]} : ks \in KeySeqs}
EmptyDict == PyDict(<<>>)
\* dicts that are no mapping of hashable-item lists
NotIterableMap == PyDict(<< <<PyStr(<<97>>), PyInt(1)>> >>)
UnhashableMap == PyDict(<< <<PyInt(1), PyList(<<PyList(<<>>)>>)>> >>)
StringMap == PyDict(<< <<PyInt(1), PyStr(<<97, 98>>)>> >>)
HalfMap == PyDict(<< <<PyInt(1), PyList(<<PyInt(2)>>)>>, <<PyInt(3), PyInt(4)>> >>)
BadMaps == {NotIterableMap, UnhashableMap, StringMap, HalfMap}
SmallMaps == {m \in AdjMaps : Len(m.v) <= 1} \cup BadMaps \cup {EmptyDict}

HintNames == <<"graph", "adj", "adjacency_list", "g">>
VisitedNames == <<"visited", "path", "seen">>

VisitedEntries ==
    { <<>>,
      <<Entry("visited", PyList(<<PyInt(1), PyStr(<<49>>), PyInt(9)>>))>>,
      <<Entry("seen", PySet(<<PyInt(2), PyInt(1)>>))>>,
      <<Entry("visited", PyInt(3)), Entry("path", PyList(<<PyInt(1)>>))>>,
      <<Entry("path", PyList(<<PyList(<<>>)>>))>> }

ExplicitLayouts(hn, m) ==
    { <<Entry(hn, m)>>,
      <<Entry("d", m)>>,
      <<Entry(hn, PyInt(5)), Entry("d", m)>>,
      <<Entry(hn, EmptyDict), Entry("d", m)>>,
      <<Entry(hn, m), Entry("head", PyObj(1))>>,
      <<Entry("head", PyObj(1)), Entry("d", m)>>,
      <<Entry("g", m), Entry("adj", PyDict(<< <<PyStr(<<122>>), PyList(<<>>)>> >>))>>,
      <<Entry("x", PyInt(3))>> }

ExplicitScopes ==
    UNION {{l \o v : l \in ExplicitLayouts(HintNames[i], m), v \in VisitedEntries} :
               i \in 1..Len(HintNames), m \in SmallMaps}

PointerScopes(h) ==
    { <<Entry("head", PyObj(1))>>,
      <<Entry("node", PyObj(1))>> }
    \cup (IF h.n >= 2
          THEN { <<Entry("node", PyObj(2)), Entry("root", PyObj(1))>>,
                 <<Entry("a", PyObj(2)), Entry("b", PyObj(1))>> }
          ELSE {})
    \cup (IF h.kind = "chain" /\ h.back = 0
          THEN { <<Entry("x", PyInt(3)), Entry("start", PyObj(1)),
                   Entry("visited", PyList(<<PyInt(1), PyStr(<<49>>)>>))>>,
                 <<Entry("graph", EmptyDict), Entry("head", PyObj(1))>>,
                 <<Entry("graph", NotIterableMap), Entry("head", PyObj(1))>>,
                 <<Entry("head", PyObj(1)), Entry("seen", PyList(<<PyList(<<>>)>>))>> }
          ELSE {})

ValPatterns == {"none", "distinct", "equal", "partial"}
Heap(kind, n, back, vals) == [kind |-> kind, n |-> n, back |-> back, vals |-> vals]
DefaultHeap == Heap("chain", 2, 0, "distinct")

Heaps ==
    {Heap("chain", n, b, vp) : n \in 1..MaxObjs, b \in {0, 1}, vp \in ValPatterns}
    \cup {Heap("chain", n, n, vp) : n \in 1..MaxObjs, vp \in ValPatterns}
    \cup {Heap(k, n, 0, vp) : k \in {"tree", "graph", "mixed"}, n \in 1..MaxObjs,
                              vp \in ValPatterns}
    \cup {Heap(k, n, 0, vp) : k \in {"setgraph", "nary"}, n \in 1..2, vp \in ValPatterns}

LLLens == (0..MaxShortLen) \cup ((max_steps - 2)..(max_steps + LongSlack))
ListHeaps ==
    {Heap("chain", n, 0, vp) : n \in LLLens, vp \in ValPatterns}
    \cup {h \in {Heap("chain", n, b, vp) : n \in LLLens, b \in {1, 2, 3}, vp \in ValPatterns} :
              h.back <= h.n}
    \cup {Heap("chain", n, n, vp) : n \in LLLens \ {0}, vp \in ValPatterns}

EdgeDict == PyDict(<< <<PyStr(<<102>>), PyInt(1)>>, <<PyStr(<<116>>), PyInt(2)>> >>)

NoArgs ==
    [visited_order |-> None, revisited_nodes |-> None, cycle_edges |-> None,
     truncated |-> FALSE,
     visited_nodes |-> None, cycle_node |-> None, cycle_edge |-> None, meet_node |-> None]

GraphArgs ==
    { NoArgs,
      [NoArgs EXCEPT !.visited_order = PyList(<<PyInt(1), PyStr(<<49>>), PyInt(9)>>),
                     !.revisited_nodes = PyList(<<PyInt(2)>>),
                     !.cycle_edges = PyList(<<EdgeDict>>),
                     !.truncated = TRUE],
      [NoArgs EXCEPT !.cycle_edges = PyList(<<PySet(<<PyInt(1)>>)>>)],
      [NoArgs EXCEPT !.visited_order = PyList(<<PyList(<<>>)>>)] }

ListArgs ==
    {[NoArgs EXCEPT !.visited_nodes = vn, !.cycle_node = cn, !.cycle_edge = ce,
                    !.meet_node = mn] :
        vn \in {None, PyList(<<PyInt(1)>>)},
        cn \in {None, PyObj(1)},
        ce \in {None, EdgeDict, PySet(<<PyInt(1), PyInt(2)>>)},
        mn \in {None, PyObj(1)}}

(***************************************************************************)
(* dump_viz: structure discovery.                                          *)
(***************************************************************************)
Bound(sc, name) == \E i \in 1..Len(sc) : sc[i].name = name
Get(sc, name) == sc[CHOOSE i \in 1..Len(sc) : sc[i].name = name].val

\* isinstance(val, dict) of the name-based hint
IsHintDict(val) == val.t = "dict"

\* for name in ['graph', 'adj', 'adjacency_list', 'g']: first name bound to a dict
RECURSIVE NameHint(_, _)
NameHint(names, sc) ==
    IF names = <<>> THEN None
    ELSE IF Bound(sc, Head(names)) /\ IsHintDict(Get(sc, Head(names)))
         THEN Get(sc, Head(names))
         ELSE NameHint(Tail(names), sc)

\* truth value of adjacency_list: None and the empty dict are false
Truthy(x) == x.t = "dict" /\ x.v # <<>>

\* a dict that looks like a graph: not empty, its first value a list
LooksLikeGraph(val) == val.t = "dict" /\ Len(val.v) > 0 /\ val.v[1][2].t = "list"

RECURSIVE ShapeScan(_, _)
ShapeScan(sc, found) ==
    IF sc = <<>> THEN found
    ELSE IF LooksLikeGraph(Head(sc).val) THEN Head(sc).val
    ELSE ShapeScan(Tail(sc), found)

IsNodeLike(h, val) ==
    /\ val.t = "obj"
    /\ \E a \in {"next", "neighbors", "children", "left", "right"} : hasattr(h, val.v, a)

\* roots.insert(0, val) for 'head', 'root', 'start'; roots.append(val) otherwise
RECURSIVE Roots(_, _, _)
Roots(sc, h, roots) ==
    IF sc = <<>> THEN roots
    ELSE IF ~IsNodeLike(h, Head(sc).val) THEN Roots(Tail(sc), h, roots)
    ELSE IF Head(sc).name \in {"head", "root", "start"}
         THEN Roots(Tail(sc), h, <<Head(sc).val.v>> \o roots)
         ELSE Roots(Tail(sc), h, Append(roots, Head(sc).val.v))

(***************************************************************************)
(* dump_viz: the breadth-first crawl from roots[0].                        *)
(***************************************************************************)
\* str(curr.val) if hasattr(curr, 'val') else str(id(curr))
NodeId(h, o) == IF hasattr(h, o, "val") THEN Str(ValOf(h, o)) ELSE Digits(id(o))

\* while queue and len(seen_objs) <= MAX_NODES
WalkCond(q, seenObjs) == q # <<>> /\ Cardinality(seenObjs) <= MAX_NODES

\* a variant that compares with > for >=
AtLimitOffByOne(seenObjs) == Cardinality(seenObjs) > MAX_NODES

\* if len(seen_objs) >= MAX_NODES
AtLimit(seenObjs) == Cardinality(seenObjs) >= MAX_NODES

\* the references of curr in the order next, neighbors, left, right
Neighbors(h, o) ==
    (IF hasattr(h, o, "next") /\ NextOf(h, o) # 0 THEN <<NextOf(h, o)>> ELSE <<>>)
    \o (IF hasattr(h, o, "neighbors") /\ NeighborsIsList(h) THEN NeighborsOf(h, o) ELSE <<>>)
    \o (IF hasattr(h, o, "left") /\ LeftOf(h, o) # 0 THEN <<LeftOf(h, o)>> ELSE <<>>)
    \o (IF hasattr(h, o, "right") /\ RightOf(h, o) # 0 THEN <<RightOf(h, o)>> ELSE <<>>)

AdjHas(adj, key) == \E i \in 1..Len(adj) : adj[i][1] = PyStr(key)
\* curr_adj[key].append(x)
AdjAppend(adj, key, x) ==
    [i \in 1..Len(adj) |->
        IF adj[i][1] = PyStr(key)
        THEN <<adj[i][1], PyList(Append(adj[i][2].v, PyStr(x)))>>
        ELSE adj[i]]

\* for n in neighbors: ... over the walk state st = [adj, seen, queue, trunc]
RECURSIVE VisitNeighbors(_, _, _, _)
VisitNeighbors(nbrs, curr_id, st, h) ==
    IF nbrs = <<>> THEN st
    ELSE LET n == Head(nbrs)
             adj1 == AdjAppend(st.adj, curr_id, NodeId(h, n))
         IN  IF id(n) \in st.seen
             THEN VisitNeighbors(Tail(nbrs), curr_id, [st EXCEPT !.adj = adj1], h)
             ELSE IF AtLimit(st.seen)
             THEN VisitNeighbors(Tail(nbrs), curr_id,
                                 [st EXCEPT !.adj = adj1, !.trunc = TRUE], h)
             ELSE VisitNeighbors(Tail(nbrs), curr_id,
                                 [adj |-> adj1, seen |-> st.seen \cup {id(n)},
                                  queue |-> Append(st.queue, n), trunc |-> st.trunc], h)

Reverse(s) == [i \in 1..Len(s) |-> s[Len(s) + 1 - i]]

\* list(val) of the first of 'visited', 'path', 'seen' bound to a list or a set: the
\* lists it can be (a set is listed in an order the caller does not control)
RECURSIVE VisitedHint(_, _)
VisitedHint(names, sc) ==
    IF names = <<>> THEN {None}
    ELSE IF Bound(sc, Head(names)) /\ Get(sc, Head(names)).t = "list"
         THEN {PyList(Get(sc, Head(names)).v)}
    ELSE IF Bound(sc, Head(names)) /\ Get(sc, Head(names)).t = "set"
         THEN {PyList(Get(sc, Head(names)).v), PyList(Reverse(Get(sc, Head(names)).v))}
         ELSE VisitedHint(Tail(names), sc)

(***************************************************************************)
(* Initial states: one call with its inputs.                               *)
(***************************************************************************)
InitLocals ==
    /\ args = NoArgs
    /\ is_truncated = FALSE
    /\ queue = <<>>
    /\ seen_objs = {}
    /\ curr_adj = <<>>
    /\ nodes = <<>>
    /\ pointers = <<>>
    /\ prev = 0
    /\ seen = {}
    /\ steps = 0
    /\ stdout = <<>>
    /\ raised = "none"
    /\ branch = "none"
    /\ dequeued = <<>>
    /\ iters = 0

InitGraphCall ==
    /\ fn = "print_graph_viz"
    /\ pc = "call"
    /\ heap = DefaultHeap
    /\ scope = <<>>
    /\ adjacency_list \in AdjMaps \cup BadMaps \cup {EmptyDict}
    /\ curr = 0
    /\ InitLocals

InitDumpViz ==
    /\ fn = "dump_viz"
    /\ pc = "discover"
    /\ \/ heap = DefaultHeap /\ scope \in ExplicitScopes
       \/ heap \in Heaps /\ scope \in PointerScopes(heap)
    /\ adjacency_list = None
    /\ curr = 0
    /\ InitLocals

\* a variant that compares with <= for <
ListCondOffByOne(c, st) == c # 0 /\ st <= max_steps

\* while curr and steps < max_steps
ListCond(c, st) == c # 0 /\ st < max_steps

InitListCall ==
    /\ fn = "print_linked_list_viz"
    /\ heap \in ListHeaps
    /\ curr = (IF heap.n = 0 THEN 0 ELSE 1)
    /\ pc = (IF ListCond(curr, 0) THEN "walk" ELSE "emit")
    /\ scope = <<>>
    /\ adjacency_list = None
    /\ InitLocals

Init == InitGraphCall \/ InitDumpViz \/ InitListCall

(***************************************************************************)
(* Actions of print_graph_viz called directly and of dump_viz.             *)
(***************************************************************************)
PrintGraphVizCall ==
    /\ fn = "print_graph_viz" /\ pc = "call"
    /\ \E a \in GraphArgs :
          LET res == print_graph_viz(adjacency_list, a.visited_order, a.revisited_nodes,
                                     a.cycle_edges, a.truncated)
          IN  /\ args' = a
              /\ stdout' = res.out
              /\ raised' = res.exc
    /\ pc' = "done"
    /\ UNCHANGED <<fn, heap, scope, dumpLocals, listLocals, iters>>

\* lines 66-104: the three discovery steps, up to the start of the crawl
Discover ==
    /\ fn = "dump_viz" /\ pc = "discover"
    /\ LET hinted == NameHint(HintNames, scope)
           shaped == IF ~Truthy(hinted) THEN ShapeScan(scope, hinted) ELSE hinted
           roots == Roots(scope, heap, <<>>)
       IN  IF Truthy(shaped) \/ roots = <<>>
           THEN /\ adjacency_list' = shaped
                /\ branch' = (IF Truthy(hinted) THEN "hint"
                              ELSE IF Truthy(shaped) THEN "shape" ELSE "none")
                /\ pc' = "emit"
                /\ UNCHANGED <<queue, seen_objs>>
           ELSE /\ adjacency_list' = shaped
                /\ branch' = "pointer"
                /\ queue' = <<roots[1]>>
                /\ seen_objs' = {id(roots[1])}
                /\ pc' = "walk"
    /\ UNCHANGED <<fn, heap, scope, args, is_truncated, curr_adj, dequeued, listLocals,
                   stdout, raised, iters>>

\* lines 108-143: one iteration of the while loop; on leaving it, adjacency_list = curr_adj
WalkStep ==
    /\ fn = "dump_viz" /\ pc = "walk"
    /\ LET o == Head(queue)
           curr_id == NodeId(heap, o)
           adj0 == IF AdjHas(curr_adj, curr_id) THEN curr_adj
                   ELSE Append(curr_adj, <<PyStr(curr_id), PyList(<<>>)>>)
           st == VisitNeighbors(Neighbors(heap, o), curr_id,
                                [adj |-> adj0, seen |-> seen_objs, queue |-> Tail(queue),
                                 trunc |-> is_truncated], heap)
       IN  /\ curr_adj' = st.adj
           /\ seen_objs' = st.seen
           /\ queue' = st.queue
           /\ is_truncated' = st.trunc
           /\ dequeued' = Append(dequeued, o)
           /\ IF WalkCond(st.queue, st.seen)
              THEN pc' = "walk" /\ UNCHANGED adjacency_list
              ELSE pc' = "emit" /\ adjacency_list' = PyDict(st.adj)
    /\ iters' = iters + 1
    /\ UNCHANGED <<fn, heap, scope, args, branch, listLocals, stdout, raised>>

\* lines 145-158: the visited hint, then print_graph_viz inside try/except
Emit ==
    /\ fn = "dump_viz" /\ pc = "emit"
    /\ \E visited_order \in VisitedHint(VisitedNames, scope) :
          LET res == print_graph_viz(adjacency_list, visited_order, None, None,
                                     is_truncated)
          IN  /\ stdout' = (IF Truthy(adjacency_list) THEN res.out ELSE <<>>)
              /\ args' = [args EXCEPT !.visited_order = visited_order,
                                      !.truncated = is_truncated]
    /\ raised' = "none"
    /\ pc' = "done"
    /\ UNCHANGED <<fn, heap, scope, dumpLocals, listLocals, iters>>

(***************************************************************************)
(* print_linked_list_viz.                                                  *)
(***************************************************************************)
\* "cycleDetected": cycle_node is not None
CycleDetected(cycle_node) == cycle_node # None

\* lines 29-48: one iteration of the while loop
ListStep ==
    /\ fn = "print_linked_list_viz" /\ pc = "walk"
    /\ iters' = iters + 1
    /\ LET node_id == Digits(id(curr))
       IN  IF node_id \in seen
           THEN \* the edge closing the cycle, then break
                /\ pointers' = Append(pointers, [from |-> Digits(id(prev)), to |-> node_id])
                /\ pc' = "emit"
                /\ UNCHANGED <<nodes, curr, prev, seen, steps, raised>>
           ELSE IF ~hasattr(heap, curr, "val")
           THEN \* str(curr.val) raises AttributeError; nothing catches it
                /\ seen' = seen \cup {node_id}
                /\ raised' = "AttributeError"
                /\ pc' = "done"
                /\ UNCHANGED <<nodes, pointers, curr, prev, steps>>
           ELSE /\ seen' = seen \cup {node_id}
                /\ nodes' = Append(nodes, [id |-> node_id, value |-> Str(ValOf(heap, curr))])
                /\ pointers' = (IF NextOf(heap, curr) # 0
                                THEN Append(pointers, [from |-> node_id,
                                                       to |-> Digits(id(NextOf(heap, curr)))])
                                ELSE pointers)
                /\ prev' = curr
                /\ curr' = NextOf(heap, curr)
                /\ steps' = steps + 1
                /\ pc' = (IF ListCond(curr', steps') THEN "walk" ELSE "emit")
                /\ UNCHANGED raised
    /\ UNCHANGED <<fn, heap, scope, args, dumpLocals, stdout>>

\* lines 50-65: the payload and json.dumps, which nothing guards
ListEmit ==
    /\ fn = "print_linked_list_viz" /\ pc = "emit"
    /\ \E a \in ListArgs :
          LET payload ==
                  [diagramType |-> "linked-list",
                   structure |-> [nodes |-> nodes, nextPointers |-> pointers],
                   markers |-> [cycleDetected |-> CycleDetected(a.cycle_node),
                                meetNode |-> IF a.meet_node # None
                                             THEN PyStr(Digits(id(a.meet_node.v)))
                                             ELSE None,
                                cycleEdge |-> a.cycle_edge]]
          IN  /\ args' = a
              /\ IF JsonSerializable(a.cycle_edge)
                 THEN stdout' = <<payload>> /\ raised' = "none"
                 ELSE stdout' = <<>> /\ raised' = "TypeError"
    /\ pc' = "done"
    /\ UNCHANGED <<fn, heap, scope, dumpLocals, listLocals, iters>>

Next == PrintGraphVizCall \/ Discover \/ WalkStep \/ Emit \/ ListStep \/ ListEmit

Spec == Init /\ [][Next]_vars

(***************************************************************************)
(* Vocabulary of the properties.                                           *)
(***************************************************************************)
Done == pc = "done"
Emitted == stdout # <<>>
Payload == stdout[1]
NodeIds(p) == {p.structure.nodes[i].id : i \in 1..Len(p.structure.nodes)}
PayloadEdges(p) ==
    IF p.diagramType = "graph" THEN p.structure.edges ELSE p.structure.nextPointers
Count(s, x) == Cardinality({i \in 1..Len(s) : s[i] = x})

\* the object the crawl of dump_viz starts from
Root == Roots(scope, heap, <<>>)[1]
HasPointerRoot == Roots(scope, heap, <<>>) # <<>>
RootNamed ==
    \E i \in 1..Len(scope) :
        scope[i].name \in {"head", "root", "start"} /\ scope[i].val = PyObj(1)
NoDictInScope == \A i \in 1..Len(scope) : scope[i].val.t # "dict"
\* no item of a visited/path/seen hint is unhashable
VisitedHashable ==
    \A i \in 1..Len(scope) :
        (scope[i].name \in Range(VisitedNames) /\ scope[i].val.t \in {"list", "set"})
            => \A y \in Range(scope[i].val.v) : Hashable(y)

\* objects referenced by o: non-null next, list-valued neighbors, non-null left and right
Refs(h, o) ==
    ((IF "next" \in Attrs(h) THEN {NextOf(h, o)} ELSE {})
     \cup (IF "neighbors" \in Attrs(h) /\ NeighborsIsList(h) THEN Range(NeighborsOf(h, o))
           ELSE {})
     \cup (IF "left" \in Attrs(h) THEN {LeftOf(h, o)} ELSE {})
     \cup (IF "right" \in Attrs(h) THEN {RightOf(h, o)} ELSE {})) \ {0}

RECURSIVE Closure(_, _)
Closure(h, S) ==
    LET T == S \cup UNION {Refs(h, o) : o \in S}
    IN  IF T = S THEN S ELSE Closure(h, T)
Reach(h, o) == Closure(h, {o})

\* a chain of 25 objects without cycle is the only structure of the scope, its first
\* object bound to a root name
C1Case ==
    /\ fn = "dump_viz" /\ Done
    /\ heap.kind = "chain" /\ heap.n = 25 /\ heap.back = 0
    /\ NoDictInScope /\ RootNamed /\ Root = 1

C2_Claim ==
    (fn = "print_linked_list_viz" /\ Done /\ Emitted /\ heap.back # 0 /\ heap.n < 100) =>
        /\ iters = heap.n + 1
        /\ Len(Payload.structure.nodes) = heap.n
        /\ \A o \in 1..heap.n :
               Cardinality({i \in 1..Len(Payload.structure.nodes) :
                               Payload.structure.nodes[i].id = Digits(id(o))}) = 1
        /\ Count(Payload.structure.nextPointers,
                 [from |-> Digits(id(heap.n)), to |-> Digits(id(heap.back))]) = 1

(***************************************************************************)
(* C3 as stated: for a `next` chain with a cycle starting at position      *)
(* k < 100 the payload of print_linked_list_viz has cycleDetected = true,  *)
(* whatever optional arguments were passed.                                *)
(***************************************************************************)
C3_Claim ==
    (fn = "print_linked_list_viz" /\ Done /\ Emitted /\ heap.back # 0 /\ heap.back < 100) =>
        Payload.markers.cycleDetected = TRUE

(***************************************************************************)
(* C4 as stated: for a `next` chain of L <= 20 objects without cycle,      *)
(* dump_viz in pointer-walk mode emits a payload with exactly L nodes and  *)
(* truncated = false, also when objects of the chain carry equal val.      *)
(***************************************************************************)
C4_Claim ==
    (/\ fn = "dump_viz" /\ Done /\ branch = "pointer"
     /\ heap.kind = "chain" /\ heap.back = 0 /\ heap.n <= 20 /\ Root = 1
     /\ VisitedHashable) =>
        /\ Emitted
        /\ Len(Payload.structure.nodes) = heap.n
        /\ Payload.truncated = FALSE

(***************************************************************************)
(* C5 as stated: in every emitted payload, graph or linked-list, the       *)
(* `from` and the `to` of every edge are ids of entries of nodes.          *)
(***************************************************************************)
C5_Claim ==
    Emitted =>
        \A i \in 1..Len(PayloadEdges(Payload)) :
            /\ PayloadEdges(Payload)[i].from \in NodeIds(Payload)
            /\ PayloadEdges(Payload)[i].to \in NodeIds(Payload)

(***************************************************************************)
(* C6 as stated: in every emitted payload no two entries of nodes have     *)
(* the same id string.                                                     *)
(***************************************************************************)
C6_Claim ==
    Emitted =>
        \A i, j \in 1..Len(Payload.structure.nodes) :
            i # j => Payload.structure.nodes[i].id # Payload.structure.nodes[j].id

(***************************************************************************)
(* C7: both traversal loops terminate.  The crawl of dump_viz pops each    *)
(* object at most once, runs at most 20 iterations and never holds more    *)
(* than 20 objects in seen_objs; the walk of print_linked_list_viz runs at *)
(* most 100 iterations; every step taken inside a loop is one counted      *)
(* iteration and no loop is entered again once left.                       *)
(***************************************************************************)
C7_Bounded ==
    /\ fn = "dump_viz" =>
        /\ iters <= MAX_NODES
        /\ Cardinality(seen_objs) <= MAX_NODES
        /\ \A i, j \in 1..Len(dequeued) : i # j => dequeued[i] # dequeued[j]
    /\ fn = "print_linked_list_viz" => iters <= max_steps

C7_Terminates ==
    /\ []C7_Bounded
    /\ [][(pc = "walk" => iters' = iters + 1) /\ (pc # "walk" => pc' # "walk" \/ iters = 0)]_vars

C7_Witness ==
    /\ fn = "print_linked_list_viz" /\ Done
    /\ heap.back # 0 /\ iters = max_steps

(***************************************************************************)
(* C8 as stated: no call of dump_viz or print_linked_list_viz propagates   *)
(* an exception to its caller.                                             *)
(***************************************************************************)
C8_Claim ==
    fn \in {"dump_viz", "print_linked_list_viz"} => raised = "none"

(***************************************************************************)
(* C9 as stated: a value bound to a hint name is used as the adjacency     *)
(* view only if it is a mapping of sequences, and a scope that holds a     *)
(* pointer-linked root and no mapping of sequences always yields a payload *)
(* built from the pointer structure.                                       *)
(***************************************************************************)
IsMappingOfSeqs(val) ==
    val.t = "dict" /\ \A i \in 1..Len(val.v) : Iterable(val.v[i][2])

C9_Claim ==
    /\ (fn = "dump_viz" /\ branch = "hint") => IsMappingOfSeqs(adjacency_list)
    /\ (/\ fn = "dump_viz" /\ Done /\ HasPointerRoot /\ VisitedHashable
        /\ \A i \in 1..Len(scope) : ~IsMappingOfSeqs(scope[i].val)) =>
           Emitted /\ branch = "pointer"

(***************************************************************************)
(* C10: in pointer-walk mode the truncated flag is true exactly when more  *)
(* than 20 objects are reachable from the root; when at most 20 are, every *)
(* reachable object was popped and is a key of the adjacency view built;   *)
(* in explicit-adjacency mode truncated is false.                          *)
(***************************************************************************)
C10_Truncated ==
    /\ (fn = "dump_viz" /\ branch = "pointer" /\ pc \in {"emit", "done"}) =>
          LET R == Reach(heap, Root)
          IN  /\ is_truncated <=> Cardinality(R) > MAX_NODES
              /\ Cardinality(R) <= MAX_NODES =>
                    /\ Range(dequeued) = R
                    /\ \A o \in R : AdjHas(adjacency_list.v, NodeId(heap, o))
              /\ Emitted => (Payload.truncated <=> Cardinality(R) > MAX_NODES)
    /\ (fn = "dump_viz" /\ branch \in {"hint", "shape"}) =>
          /\ is_truncated = FALSE
          /\ Emitted => Payload.truncated = FALSE

C10_Witness ==
    /\ fn = "dump_viz" /\ Done /\ branch = "pointer" /\ Emitted
    /\ heap.kind = "tree" /\ Payload.truncated
    /\ Cardinality(Reach(heap, Root)) = MAX_NODES + 1

====
